---- MODULE Spec2Model ----
(***************************************************************************)
(* Civix backend: the issue lifecycle, role gates, free-user quota,        *)
(* payments and the public issue listing, as implemented by the Express    *)
(* route handlers over the MongoDB collections users / issues / payments.  *)
(*                                                                         *)
(* Spec         lifecycle and roles: every handler runs to completion      *)
(*              before the next request.                                   *)
(* SpecAccount  quota and premium: create / delete / block / premium /     *)
(*              profile / payment requests, one after the other.           *)
(* SpecList     the issues collection is built by create / edit / boost    *)
(*              and the two GET /issues handlers are applied to it.        *)
(* SpecConc     create-issue and delete-issue are split at their awaits,   *)
(*              so that requests interleave.                               *)
(* SpecPay      Stripe checkout sessions, verify-payment and POST          *)
(*              /payments, one request after the other.                    *)
(* SpecPayConc  verify-payment split at its awaits.                        *)
(* SpecToken    verifyToken in front of the protected routes.              *)
(* SpecRead     the per-user read routes.                                  *)
(* SpecEdit     PATCH /issues/:id with arbitrary request bodies.           *)
(* SpecIssuesConc  create-issue and delete-issue steps by two users.       *)
(* SpecUpvoteConc  upvote split at its awaits.                             *)
(* SpecAssignConc  admin assign and delete-staff split at their awaits.    *)
(* SpecFail     create-issue and block-user split at their awaits, each    *)
(*              awaited database operation may reject.                     *)
(***************************************************************************)
EXTENDS Integers, Sequences, FiniteSets, TLC

\* ------------------------------------------------------------------ bounds
MaxIssues == 1          \* ObjectIds handed out under Spec
MaxQuotaIssues == 4     \* ObjectIds handed out under SpecAccount and SpecConc
MaxTime == 2            \* distinct values of new Date()
MaxPayments == 1        \* documents inserted into the payments collection
MaxListIssues == 2      \* ObjectIds handed out under SpecList
MaxListPayments == 2    \* payments under SpecList
MaxSessions == 2        \* Stripe checkout sessions created
MaxPayIssues == 1       \* ObjectIds handed out under SpecPay and SpecPayConc
MaxVerified == 2        \* payments under SpecPay and SpecPayConc
MaxReadIssues == 2      \* ObjectIds handed out under SpecRead
MaxMail == 1            \* documents of the messages / notifications collection
MaxInFlight == 2        \* requests between two of their awaits (SpecConc)
MaxLimit == 2           \* largest ?limit= of a listing request
MaxPage == 2            \* largest ?page= of a listing request

\* ------------------------------------------------------- program constants
QuotaLimit == 3
DefaultPage == 1
DefaultLimit == 10

Emails == {"alice", "bob", "root"}
Null == "null"
Statuses == {"pending", "in-progress", "working", "resolved", "closed", "rejected"}

VARIABLES users, issues, nextId, payments, sessions, mailbox, now, resp, listing,
          inflight

db == <<users, issues, nextId, payments>>
vars == <<users, issues, nextId, payments, sessions, mailbox, now, resp, listing,
         inflight>>

\* A collection is a function from the key of a document (the email of a user,
\* the _id of an issue) to the document.
EmptyCollection == [k \in {} |-> k]

Without(coll, key) == [k \in DOMAIN coll \ {key} |-> coll[k]]

\* updateOne(..., {$set: updates}) on the modelled fields of a document.  A
\* key of updates is a path: "assignedStaff.email" sets the email inside the
\* embedded assignedStaff document (the model keeps that document as its
\* email), "upvotedBy.0" sets the first element of the array, adding it to
\* an empty one.
SetFields(doc, updates) ==
    [f \in DOMAIN doc |->
        IF f \in DOMAIN updates THEN updates[f]
        ELSE IF f = "assignedStaff" /\ "assignedStaff.email" \in DOMAIN updates
                /\ doc[f] # Null
        THEN updates["assignedStaff.email"]
        ELSE IF f = "upvotedBy" /\ "upvotedBy.0" \in DOMAIN updates
        THEN IF Len(doc[f]) = 0
             THEN <<updates["upvotedBy.0"]>>
             ELSE [doc[f] EXCEPT ![1] = updates["upvotedBy.0"]]
        ELSE doc[f]]

\* the server rejects a $set that needs a field inside null
SetFails(doc, updates) ==
    "assignedStaff.email" \in DOMAIN updates /\ doc.assignedStaff = Null

\* `delete updates.f` for every f of fields
StripFields(updates, fields) ==
    [f \in DOMAIN updates \ fields |-> updates[f]]

\* ------------------------------------------------------------- responses
\* The answer to the last request: the route, the status code sent and which
\* check of the route sent it.
Response(op, code, reason) == [op |-> op, code |-> code, reason |-> reason]

\* listing is what GET /issues has answered since the last request of another
\* kind, for one handler, one limit and one filter: the answer to every page
\* asked for.  Any other request starts it afresh.
NoListing ==
    [variant |-> "none", limit |-> 0, query |-> [status |-> "", priority |-> ""],
     pages |-> EmptyCollection]

\* ------------------------------------------------------------- middleware
\* 0 stands for next(); otherwise the status code the middleware answers.
VerifyAdminLax(caller) ==
    IF caller \notin DOMAIN users THEN 404
    ELSE IF users[caller].role \notin {"admin", "staff"} THEN 403
    ELSE 0

VerifyAdmin(caller) ==
    IF caller \notin DOMAIN users THEN 404
    ELSE IF users[caller].role # "admin" THEN 403
    ELSE 0

VerifyStaff(caller) ==
    IF caller \notin DOMAIN users THEN 404
    ELSE IF users[caller].role # "staff" /\ users[caller].role # "admin" THEN 403
    ELSE 0

VerifyCitizen(caller) ==
    IF caller \notin DOMAIN users THEN 404
    ELSE IF users[caller].isBlocked THEN 403
    ELSE 0

\* ------------------------------------------------------------------ state
\* A slot of inflight holds a request that is between two of its awaits.
Idle == [op |-> "idle", caller |-> "", id |-> 0, pc |-> "idle"]

Init ==
    /\ users = EmptyCollection
    /\ issues = EmptyCollection
    /\ nextId = 1
    /\ payments = <<>>
    /\ sessions = EmptyCollection
    /\ mailbox = [messages |-> <<>>, notifications |-> <<>>]
    /\ now = 1
    /\ resp = Response("none", 0, "")
    /\ listing = NoListing
    /\ inflight = [slot \in 1 .. MaxInFlight |-> Idle]

\* new Date() has millisecond resolution: the clock may or may not have moved
\* between two requests.
Tick ==
    /\ now < MaxTime
    /\ now' = now + 1
    /\ resp' = Response("tick", 0, "")
    /\ UNCHANGED <<db, sessions, mailbox, inflight>>
    /\ listing' = NoListing

\* ------------------------------------------------------------ auth routes
RegisterBodies ==
    {[email |-> "alice", role |-> "citizen"],
     [email |-> "bob", role |-> "staff"],
     [email |-> "root", role |-> "admin"]}

\* assignedIssuesCount and resolvedIssuesCount are absent from a registered
\* user's document until the first $inc, which starts from 0.
NewUser(role) ==
    [role |-> role, isPremium |-> FALSE, isBlocked |-> FALSE, issueCount |-> 0,
     assignedIssuesCount |-> 0, resolvedIssuesCount |-> 0]

Register(body) ==
    /\ IF body.email \in DOMAIN users
       THEN /\ resp' = Response("register", 400, "exists")
            /\ UNCHANGED users
       ELSE /\ users' = users @@ (body.email :> NewUser(body.role))
            /\ resp' = Response("register", 201, "ok")
    /\ UNCHANGED <<issues, nextId, payments, now, mailbox, sessions, inflight>>
    /\ listing' = NoListing

\* ----------------------------------------------------------- issue routes
TimelineEntry(status, updatedBy, updatedByRole) ==
    [status |-> status, updatedBy |-> updatedBy, updatedByRole |-> updatedByRole]

NewIssue(userEmail) ==
    [userEmail |-> userEmail, status |-> "pending", priority |-> "normal",
     upvotes |-> 0, upvotedBy |-> <<>>, assignedStaff |-> Null,
     createdAt |-> now,
     timeline |-> <<TimelineEntry("pending", userEmail, "citizen")>>]

QuotaExceededOffByOne(user) == ~user.isPremium /\ user.issueCount > QuotaLimit

\* if (!user.isPremium && user.issueCount >= 3)
QuotaExceeded(user) == ~user.isPremium /\ user.issueCount >= QuotaLimit

\* POST /issues; cap bounds the ObjectIds handed out
\* POST /issues without the two isBlocked checks
CreateIssueLax(caller, cap) ==
    /\ IF caller \notin DOMAIN users
       THEN /\ resp' = Response("create", 404, "verifyCitizen")
            /\ UNCHANGED db
       ELSE IF QuotaExceeded(users[caller])
       THEN /\ resp' = Response("create", 403, "needsPremium")
            /\ UNCHANGED db
       ELSE /\ nextId <= cap
            /\ issues' = issues @@ (nextId :> NewIssue(caller))
            /\ nextId' = nextId + 1
            /\ users' = [users EXCEPT ![caller].issueCount = @ + 1]
            /\ resp' = Response("create", 201, "ok")
            /\ UNCHANGED payments
    /\ UNCHANGED <<now, mailbox, sessions, inflight>>
    /\ listing' = NoListing

CreateIssue(caller, cap) ==
    LET gate == VerifyCitizen(caller) IN
    /\ IF gate # 0
       THEN /\ resp' = Response("create", gate, "verifyCitizen")
            /\ UNCHANGED db
       ELSE IF users[caller].isBlocked
       THEN /\ resp' = Response("create", 403, "blocked")
            /\ UNCHANGED db
       ELSE IF QuotaExceeded(users[caller])
       THEN /\ resp' = Response("create", 403, "needsPremium")
            /\ UNCHANGED db
       ELSE /\ nextId <= cap
            /\ issues' = issues @@ (nextId :> NewIssue(caller))
            /\ nextId' = nextId + 1
            /\ users' = [users EXCEPT ![caller].issueCount = @ + 1]
            /\ resp' = Response("create", 201, "ok")
            /\ UNCHANGED payments
    /\ UNCHANGED <<now, mailbox, sessions, inflight>>
    /\ listing' = NoListing

ProtectedIssueFieldsLax == {"userEmail", "priority", "upvotes", "upvotedBy", "assignedStaff"}

\* delete updates.userEmail; ... delete updates.assignedStaff;
ProtectedIssueFields ==
    {"userEmail", "status", "priority", "upvotes", "upvotedBy", "assignedStaff"}

EditBodies == {[status |-> "closed", priority |-> "high", title |-> "t"]}

\* PATCH /issues/:id
EditIssue(caller, id, body) ==
    /\ IF id \notin DOMAIN issues
       THEN /\ resp' = Response("edit", 404, "notFound")
            /\ UNCHANGED issues
       ELSE IF issues[id].userEmail # caller
       THEN /\ resp' = Response("edit", 403, "owner")
            /\ UNCHANGED issues
       ELSE IF issues[id].status # "pending"
       THEN /\ resp' = Response("edit", 400, "status")
            /\ UNCHANGED issues
       ELSE IF SetFails(issues[id], StripFields(body, ProtectedIssueFields))
       THEN /\ resp' = Response("edit", 500, "updateOne")
            /\ UNCHANGED issues
       ELSE /\ issues' = [issues EXCEPT
                 ![id] = SetFields(@, StripFields(body, ProtectedIssueFields))]
            /\ resp' = Response("edit", 200, "ok")
    /\ UNCHANGED <<users, nextId, payments, now, mailbox, sessions, inflight>>
    /\ listing' = NoListing

\* updateOne({email}, {$inc: {issueCount: n}}): no document, no change
IncIssueCount(coll, email, n) ==
    IF email \in DOMAIN coll
    THEN [coll EXCEPT ![email].issueCount = @ + n]
    ELSE coll

\* DELETE /issues/:id
DeleteIssue(caller, id) ==
    /\ IF id \notin DOMAIN issues
       THEN /\ resp' = Response("delete", 404, "notFound")
            /\ UNCHANGED <<users, issues>>
       ELSE IF issues[id].userEmail # caller
       THEN /\ resp' = Response("delete", 403, "owner")
            /\ UNCHANGED <<users, issues>>
       ELSE /\ issues' = Without(issues, id)
            /\ users' = IncIssueCount(users, caller, -1)
            /\ resp' = Response("delete", 200, "ok")
    /\ UNCHANGED <<nextId, payments, now, mailbox, sessions, listing, inflight>>

Includes(seq, x) == \E k \in DOMAIN seq : seq[k] = x

\* POST /issues/:id/upvote
UpvoteIssue(caller, id) ==
    /\ IF id \notin DOMAIN issues
       THEN /\ resp' = Response("upvote", 404, "notFound")
            /\ UNCHANGED issues
       ELSE IF Includes(issues[id].upvotedBy, caller)
       THEN /\ resp' = Response("upvote", 400, "already")
            /\ UNCHANGED issues
       ELSE IF issues[id].userEmail = caller
       THEN /\ resp' = Response("upvote", 403, "own")
            /\ UNCHANGED issues
       ELSE /\ issues' = [issues EXCEPT ![id].upvotes = @ + 1,
                                        ![id].upvotedBy = Append(@, caller)]
            /\ resp' = Response("upvote", 200, "ok")
    /\ UNCHANGED <<users, nextId, payments, now, mailbox, sessions, listing, inflight>>

\* ----------------------------------------------------------- admin routes
\* PATCH /admin/issues/:id/assign
AssignStaff(caller, id, staffEmail) ==
    LET gate == VerifyAdmin(caller) IN
    /\ IF gate # 0
       THEN /\ resp' = Response("assign", gate, "verifyAdmin")
            /\ UNCHANGED <<users, issues>>
       ELSE IF id \notin DOMAIN issues
       THEN /\ resp' = Response("assign", 404, "notFound")
            /\ UNCHANGED <<users, issues>>
       ELSE IF issues[id].assignedStaff # Null
       THEN /\ resp' = Response("assign", 400, "assigned")
            /\ UNCHANGED <<users, issues>>
       ELSE IF staffEmail \notin DOMAIN users \/ users[staffEmail].role # "staff"
       THEN /\ resp' = Response("assign", 404, "noStaff")
            /\ UNCHANGED <<users, issues>>
       ELSE /\ issues' = [issues EXCEPT
                 ![id].assignedStaff = staffEmail,
                 ![id].timeline = Append(@, TimelineEntry("assigned", caller, "admin"))]
            /\ users' = [users EXCEPT ![staffEmail].assignedIssuesCount = @ + 1]
            /\ resp' = Response("assign", 200, "ok")
    /\ UNCHANGED <<nextId, payments, now, mailbox, sessions, listing, inflight>>

CanRejectLax(issue) == issue.status \in {"pending", "in-progress"}

\* if (issue.status !== 'pending') return 400
CanReject(issue) == issue.status = "pending"

\* PATCH /admin/issues/:id/reject
RejectIssue(caller, id) ==
    LET gate == VerifyAdmin(caller) IN
    /\ IF gate # 0
       THEN /\ resp' = Response("reject", gate, "verifyAdmin")
            /\ UNCHANGED issues
       ELSE IF id \notin DOMAIN issues
       THEN /\ resp' = Response("reject", 404, "notFound")
            /\ UNCHANGED issues
       ELSE IF ~CanReject(issues[id])
       THEN /\ resp' = Response("reject", 400, "status")
            /\ UNCHANGED issues
       ELSE /\ issues' = [issues EXCEPT
                 ![id].status = "rejected",
                 ![id].timeline = Append(@, TimelineEntry("rejected", caller, "admin"))]
            /\ resp' = Response("reject", 200, "ok")
    /\ UNCHANGED <<users, nextId, payments, now, mailbox, sessions, listing, inflight>>

\* PATCH /admin/users/:email/block, PATCH /users/:email/block
BlockUser(caller, email, isBlocked) ==
    LET gate == VerifyAdmin(caller) IN
    /\ IF gate # 0
       THEN /\ resp' = Response("block", gate, "verifyAdmin")
            /\ UNCHANGED users
       ELSE IF email \notin DOMAIN users
       THEN /\ resp' = Response("block", 404, "notFound")
            /\ UNCHANGED users
       ELSE /\ users' = [users EXCEPT ![email].isBlocked = isBlocked]
            /\ resp' = Response("block", 200, "ok")
    /\ UNCHANGED <<issues, nextId, payments, now, mailbox, sessions, listing, inflight>>

\* GET /payments (all payments) and GET /admin/stats: read-only
AdminRead(caller, op) ==
    LET gate == VerifyAdmin(caller) IN
    /\ IF gate # 0
       THEN resp' = Response(op, gate, "verifyAdmin")
       ELSE resp' = Response(op, 200, "ok")
    /\ UNCHANGED <<db, now, mailbox, sessions, listing, inflight>>

\* ----------------------------------------------------------- staff routes
\* A staff document has no isPremium and no issueCount field; both read as
\* falsy in the create-issue checks and $inc starts from 0.
NewStaff ==
    [role |-> "staff", isPremium |-> FALSE, isBlocked |-> FALSE, issueCount |-> 0,
     assignedIssuesCount |-> 0, resolvedIssuesCount |-> 0]

\* POST /staff
CreateStaff(caller, email) ==
    LET gate == VerifyAdmin(caller) IN
    /\ IF gate # 0
       THEN /\ resp' = Response("createStaff", gate, "verifyAdmin")
            /\ UNCHANGED users
       ELSE IF email \in DOMAIN users
       THEN /\ resp' = Response("createStaff", 400, "exists")
            /\ UNCHANGED users
       ELSE /\ users' = users @@ (email :> NewStaff)
            /\ resp' = Response("createStaff", 201, "ok")
    /\ UNCHANGED <<issues, nextId, payments, now, mailbox, sessions, listing, inflight>>

\* delete updates.role; delete updates.email; delete updates.password;
ProtectedStaffFields == {"role", "email", "password"}

StaffBodies == {[role |-> "admin", phone |-> "0"]}

\* PATCH /staff/:email
UpdateStaff(caller, email, body) ==
    LET gate == VerifyAdmin(caller) IN
    /\ IF gate # 0
       THEN /\ resp' = Response("updateStaff", gate, "verifyAdmin")
            /\ UNCHANGED users
       ELSE IF email \notin DOMAIN users \/ users[email].role # "staff"
       THEN /\ resp' = Response("updateStaff", 404, "notFound")
            /\ UNCHANGED users
       ELSE /\ users' = [users EXCEPT
                 ![email] = SetFields(@, StripFields(body, ProtectedStaffFields))]
            /\ resp' = Response("updateStaff", 200, "ok")
    /\ UNCHANGED <<issues, nextId, payments, now, mailbox, sessions, listing, inflight>>

\* countDocuments({'assignedStaff.email': email})
AssignedCount(email) ==
    Cardinality({id \in DOMAIN issues : issues[id].assignedStaff = email})

\* DELETE /staff/:email
DeleteStaff(caller, email) ==
    LET gate == VerifyAdmin(caller) IN
    /\ IF gate # 0
       THEN /\ resp' = Response("deleteStaff", gate, "verifyAdmin")
            /\ UNCHANGED users
       ELSE IF AssignedCount(email) > 0
       THEN /\ resp' = Response("deleteStaff", 400, "assigned")
            /\ UNCHANGED users
       ELSE IF email \notin DOMAIN users \/ users[email].role # "staff"
       THEN /\ resp' = Response("deleteStaff", 404, "notFound")
            /\ UNCHANGED users
       ELSE /\ users' = Without(users, email)
            /\ resp' = Response("deleteStaff", 200, "ok")
    /\ UNCHANGED <<issues, nextId, payments, now, mailbox, sessions, listing, inflight>>

validTransitionsLax(status) ==
    CASE status = "pending" -> {"in-progress", "resolved"}
      [] status = "in-progress" -> {"working", "resolved"}
      [] status = "working" -> {"resolved"}
      [] status = "resolved" -> {"closed"}
      [] OTHER -> {}

\* const validTransitions = {...}; validTransitions[issue.status]?.includes(status)
validTransitions(status) ==
    CASE status = "pending" -> {"in-progress"}
      [] status = "in-progress" -> {"working", "resolved"}
      [] status = "working" -> {"resolved"}
      [] status = "resolved" -> {"closed"}
      [] OTHER -> {}

IsAssignedToLax(issue, staffEmail) == issue.assignedStaff # Null

\* issue.assignedStaff?.email !== staffEmail  (negated)
IsAssignedTo(issue, staffEmail) == issue.assignedStaff = staffEmail

\* PATCH /staff/issues/:id/status
UpdateIssueStatus(caller, id, status) ==
    LET gate == VerifyStaff(caller) IN
    /\ IF gate # 0
       THEN /\ resp' = Response("staffStatus", gate, "verifyStaff")
            /\ UNCHANGED <<users, issues>>
       ELSE IF id \notin DOMAIN issues
       THEN /\ resp' = Response("staffStatus", 404, "notFound")
            /\ UNCHANGED <<users, issues>>
       ELSE IF ~IsAssignedTo(issues[id], caller)
       THEN /\ resp' = Response("staffStatus", 403, "assigned")
            /\ UNCHANGED <<users, issues>>
       ELSE IF status \notin validTransitions(issues[id].status)
       THEN /\ resp' = Response("staffStatus", 400, "transition")
            /\ UNCHANGED <<users, issues>>
       ELSE /\ issues' = [issues EXCEPT
                 ![id].status = status,
                 ![id].timeline = Append(@, TimelineEntry(status, caller, "staff"))]
            /\ users' = IF status = "resolved"
                        THEN [users EXCEPT ![caller].resolvedIssuesCount = @ + 1]
                        ELSE users
            /\ resp' = Response("staffStatus", 200, "ok")
    /\ UNCHANGED <<nextId, payments, now, mailbox, sessions, listing, inflight>>

\* ----------------------------------------------------------- users routes
\* PATCH /users/:email/premium
ActivatePremium(caller, email) ==
    /\ IF email # caller
       THEN /\ resp' = Response("premium", 403, "forbidden")
            /\ UNCHANGED users
       ELSE /\ users' = IF email \in DOMAIN users
                        THEN [users EXCEPT ![email].isPremium = TRUE]
                        ELSE users
            /\ resp' = Response("premium", 200, "ok")
    /\ UNCHANGED <<issues, nextId, payments, now, mailbox, sessions, listing, inflight>>

\* delete updates.role; delete updates.isPremium; delete updates.isBlocked;
\* delete updates.email;
ProtectedUserFields == {"role", "isPremium", "isBlocked", "email"}

ProfileBodies ==
    {[isPremium |-> TRUE, issueCount |-> 0], [issueCount |-> QuotaLimit]}

\* PATCH /auth/users/:email
UpdateProfile(caller, email, body) ==
    /\ IF email # caller
       THEN /\ resp' = Response("profile", 403, "forbidden")
            /\ UNCHANGED users
       ELSE /\ users' = IF email \in DOMAIN users
                        THEN [users EXCEPT
                               ![email] = SetFields(@, StripFields(body, ProtectedUserFields))]
                        ELSE users
            /\ resp' = Response("profile", 200, "ok")
    /\ UNCHANGED <<issues, nextId, payments, now, mailbox, sessions, listing, inflight>>

\* -------------------------------------------------------- payments routes
PaymentOf(userEmail, type, issueId, transactionId) ==
    [userEmail |-> userEmail, type |-> type, issueId |-> issueId,
     transactionId |-> transactionId, status |-> "completed"]

\* the payment of POST /payments; transactionId 0: the body carries none
Payment(userEmail, type, issueId) == PaymentOf(userEmail, type, issueId, 0)

\* issuesCollection.updateOne({_id}, {$set: {priority: 'high'}, $push: {timeline}})
Boost(coll, id, userEmail) ==
    IF id \in DOMAIN coll
    THEN [coll EXCEPT ![id].priority = "high",
                      ![id].timeline = Append(@, TimelineEntry("boosted", userEmail, "citizen"))]
    ELSE coll

PaymentTypes == {"boost", "subscription"}

\* POST /payments; issueId 0 stands for a body without issueId, cap bounds the
\* documents of the payments collection
RecordPayment(caller, type, issueId, cap) ==
    /\ IF caller \notin DOMAIN users
       THEN /\ resp' = Response("payment", 404, "noUser")
            /\ UNCHANGED db
       ELSE IF type = "boost" /\ issueId # 0 /\ issueId \notin DOMAIN issues
       THEN /\ resp' = Response("payment", 404, "notFound")
            /\ UNCHANGED db
       ELSE IF type = "boost" /\ issueId # 0 /\ issues[issueId].userEmail # caller
       THEN /\ resp' = Response("payment", 403, "owner")
            /\ UNCHANGED db
       ELSE /\ Len(payments) < cap
            /\ payments' = Append(payments, Payment(caller, type, issueId))
            /\ issues' = IF type = "boost" /\ issueId # 0
                         THEN Boost(issues, issueId, caller)
                         ELSE issues
            /\ users' = IF type = "subscription"
                        THEN [users EXCEPT ![caller].isPremium = TRUE]
                        ELSE users
            /\ resp' = Response("payment", 201, "ok")
            /\ UNCHANGED nextId
    /\ UNCHANGED <<now, mailbox, sessions, inflight>>
    /\ listing' = NoListing

\* ------------------------------------------------- Stripe checkout routes
\* stripe.checkout.sessions.create({customer_email, metadata: {userEmail,
\* type, issueId}}): a session starts unpaid
Session(userEmail, type, issueId) ==
    [customer_email |-> userEmail, metadata |-> [userEmail |-> userEmail,
     type |-> type, issueId |-> issueId], payment_status |-> "unpaid"]

SessionTypes == {"boost", "premium_subscription"}

\* POST /payments/create-checkout-session; issueId 0: the body carries none
CreateCheckoutSession(caller, type, issueId) ==
    /\ IF caller \notin DOMAIN users
       THEN /\ resp' = Response("checkout", 404, "noUser")
            /\ UNCHANGED sessions
       ELSE /\ Cardinality(DOMAIN sessions) < MaxSessions
            /\ sessions' = sessions @@
                  (Cardinality(DOMAIN sessions) + 1 :> Session(caller, type, issueId))
            /\ resp' = Response("checkout", 200, "ok")
    /\ UNCHANGED <<db, now, mailbox, listing, inflight>>

\* The customer completes the checkout page at session.url: Stripe marks the
\* session paid.
StripePay(sessionId) ==
    /\ sessionId \in DOMAIN sessions
    /\ sessions[sessionId].payment_status = "unpaid"
    /\ sessions' = [sessions EXCEPT ![sessionId].payment_status = "paid"]
    /\ resp' = Response("stripe", 0, "")
    /\ UNCHANGED <<db, now, mailbox, listing, inflight>>

SessionBelongsToLax(session, userEmail) == TRUE

\* session.customer_email !== userEmail && session.metadata?.userEmail !== userEmail
\* (negated)
SessionBelongsTo(session, userEmail) ==
    session.customer_email = userEmail \/ session.metadata.userEmail = userEmail

\* const paymentType = type === 'premium_subscription' ? 'subscription' : type
PaymentTypeOf(type) == IF type = "premium_subscription" THEN "subscription" ELSE type

\* paymentsCollection.findOne({transactionId: sessionId}) finds a document
ExistingPayment(sessionId) ==
    \E k \in DOMAIN payments : payments[k].transactionId = sessionId

\* the two updates after the insert of verify-payment
ApplyPayment(coll, userEmail, type) ==
    IF PaymentTypeOf(type) = "subscription" /\ userEmail \in DOMAIN coll
    THEN [coll EXCEPT ![userEmail].isPremium = TRUE]
    ELSE coll

\* POST /payments/verify-payment; sessionId 0: the body carries none.
\* sessions.retrieve rejects for an id Stripe does not know: the catch answers.
VerifyPayment(caller, sessionId, cap) ==
    /\ IF sessionId = 0
       THEN /\ resp' = Response("verify", 400, "noSessionId")
            /\ UNCHANGED db
       ELSE IF sessionId \notin DOMAIN sessions
       THEN /\ resp' = Response("verify", 500, "retrieve")
            /\ UNCHANGED db
       ELSE IF ~SessionBelongsTo(sessions[sessionId], caller)
       THEN /\ resp' = Response("verify", 403, "session")
            /\ UNCHANGED db
       ELSE IF sessions[sessionId].payment_status # "paid"
       THEN /\ resp' = Response("verify", 400, "unpaid")
            /\ UNCHANGED db
       ELSE IF ExistingPayment(sessionId)
       THEN /\ resp' = Response("verify", 200, "already")
            /\ UNCHANGED db
       ELSE LET meta == sessions[sessionId].metadata IN
            /\ Len(payments) < cap
            /\ payments' = Append(payments,
                  PaymentOf(caller, PaymentTypeOf(meta.type), meta.issueId, sessionId))
            /\ users' = ApplyPayment(users, caller, meta.type)
            /\ issues' = IF meta.type = "boost" /\ meta.issueId # 0
                         THEN Boost(issues, meta.issueId, caller)
                         ELSE issues
            /\ resp' = Response("verify", 200, "ok")
            /\ UNCHANGED nextId
    /\ UNCHANGED <<sessions, now, mailbox, inflight>>
    /\ listing' = NoListing

\* ------------------------------------------------------------------ Spec
\* Issue lifecycle and role gates, one request at a time.  Every user calls
\* every gated operation; issues are reported by Reporters, upvoted by
\* Upvoters, and the account operations target Accounts.
IssueIds == 1 .. MaxIssues
Reporters == {"alice"}
Accounts == {"alice"}
Upvoters == {"alice", "bob"}
StaffAccounts == {"bob"}

Next ==
    \/ \E body \in RegisterBodies : Register(body)
    \/ \E caller \in Reporters : CreateIssue(caller, MaxIssues)
    \/ \E caller \in Emails, id \in IssueIds, body \in EditBodies :
          EditIssue(caller, id, body)
    \/ \E caller \in Emails, id \in IssueIds : DeleteIssue(caller, id)
    \/ \E caller \in Upvoters, id \in IssueIds : UpvoteIssue(caller, id)
    \/ \E caller \in Emails, id \in IssueIds, staffEmail \in Emails :
          AssignStaff(caller, id, staffEmail)
    \/ \E caller \in Emails, id \in IssueIds : RejectIssue(caller, id)
    \/ \E caller \in Emails, email \in Accounts, isBlocked \in BOOLEAN :
          BlockUser(caller, email, isBlocked)
    \/ \E caller \in Emails, op \in {"listPayments", "stats"} : AdminRead(caller, op)
    \/ \E caller \in Emails, email \in StaffAccounts : CreateStaff(caller, email)
    \/ \E caller \in Emails, email \in StaffAccounts, body \in StaffBodies :
          UpdateStaff(caller, email, body)
    \/ \E caller \in Emails, email \in StaffAccounts : DeleteStaff(caller, email)
    \/ \E caller \in Emails, id \in IssueIds, status \in Statuses :
          UpdateIssueStatus(caller, id, status)
    \/ \E caller \in Emails, id \in IssueIds : RecordPayment(caller, "boost", id, MaxPayments)

Spec == Init /\ [][Next]_vars

\* ----------------------------------------------------------- SpecAccount
\* The account of a citizen: quota, premium, block, one request at a time.
NextAccount ==
    \/ \E body \in RegisterBodies : Register(body)
    \/ \E caller \in Reporters : CreateIssue(caller, MaxQuotaIssues)
    \/ \E caller \in Reporters, id \in 1 .. MaxQuotaIssues : DeleteIssue(caller, id)
    \/ \E caller \in Emails, email \in Accounts, isBlocked \in BOOLEAN :
          BlockUser(caller, email, isBlocked)
    \/ \E caller \in Emails, email \in Accounts : ActivatePremium(caller, email)
    \/ \E caller \in Emails, email \in Accounts, body \in ProfileBodies :
          UpdateProfile(caller, email, body)
    \/ \E caller \in Reporters, type \in PaymentTypes : RecordPayment(caller, type, 0, MaxPayments)

SpecAccount == Init /\ [][NextAccount]_vars

\* --------------------------------------------------------------- SpecPay
PayRegisterBodies ==
    {[email |-> "alice", role |-> "citizen"], [email |-> "bob", role |-> "citizen"]}

Payers == {"alice", "bob"}

\* Payments, one request at a time: alice reports, alice and bob pay.
NextPay ==
    \/ \E body \in PayRegisterBodies : Register(body)
    \/ \E caller \in Reporters : CreateIssue(caller, MaxPayIssues)
    \/ \E caller \in Payers, type \in SessionTypes, issueId \in 0 .. MaxPayIssues :
          CreateCheckoutSession(caller, type, issueId)
    \/ \E sessionId \in 1 .. MaxSessions : StripePay(sessionId)
    \/ \E caller \in Payers, sessionId \in 0 .. MaxSessions :
          VerifyPayment(caller, sessionId, MaxVerified)
    \/ \E caller \in Payers, type \in PaymentTypes, issueId \in 0 .. MaxPayIssues :
          RecordPayment(caller, type, issueId, MaxVerified)

SpecPay == Init /\ [][NextPay]_vars

\* -------------------------------------------------------------- listing
\* GET /issues.  query.status / query.priority are set only when the
\* parameter is non-empty.
Matches(issue, query) ==
    /\ query.status # "" => issue.status = query.status
    /\ query.priority # "" => issue.priority = query.priority

Matching(query) == {id \in DOMAIN issues : Matches(issues[id], query)}

\* $switch of the aggregate's $addFields
priorityOrder(priority) ==
    CASE priority = "high" -> 3
      [] priority = "normal" -> 2
      [] priority = "low" -> 1
      [] OTHER -> 2

\* .sort({priority: -1}) compares the strings: the code unit of the first
\* letter decides between "high" (h), "low" (l) and "normal" (n).
priorityString(priority) ==
    CASE priority = "high" -> 104
      [] priority = "low" -> 108
      [] priority = "normal" -> 110
      [] OTHER -> 0

\* the first sort key of a handler
SortKey(variant, priority) ==
    IF variant = "aggregate" THEN priorityOrder(priority) ELSE priorityString(priority)

\* a before b is allowed by {<first key>: -1, createdAt: -1}
SortsBefore(a, b, variant) ==
    \/ SortKey(variant, issues[a].priority) > SortKey(variant, issues[b].priority)
    \/ /\ SortKey(variant, issues[a].priority) = SortKey(variant, issues[b].priority)
       /\ issues[a].createdAt >= issues[b].createdAt

\* The orders a sort may return: documents with equal sort keys come in any
\* order, chosen anew by every query.
SortedOrders(ids, variant) ==
    {ord \in [1 .. Cardinality(ids) -> ids] :
        /\ \A i, j \in DOMAIN ord : i # j => ord[i] # ord[j]
        /\ \A i, j \in DOMAIN ord : i < j => SortsBefore(ord[i], ord[j], variant)}

\* $skip, $limit
SkipLimit(ord, skip, limit) ==
    [k \in 1 .. (IF Len(ord) - skip > limit THEN limit
                 ELSE IF Len(ord) - skip > 0 THEN Len(ord) - skip ELSE 0)
        |-> ord[skip + k]]

\* Math.ceil(total / limit)
Ceil(total, limit) == (total + limit - 1) \div limit

\* parseInt(req.query.page) || 1, parseInt(req.query.limit) || 10
PageOf(param) == IF param = 0 THEN DefaultPage ELSE param
LimitOf(param) == IF param = 0 THEN DefaultLimit ELSE param

ListQueries ==
    {[status |-> "", priority |-> ""],
     [status |-> "", priority |-> "high"],
     [status |-> "pending", priority |-> "normal"]}

Answer(ord, page, limit) ==
    [issues |-> SkipLimit(ord, (page - 1) * limit, limit),
     currentPage |-> page,
     totalPages |-> Ceil(Len(ord), limit),
     totalIssues |-> Len(ord)]

Listed(variant, limit, query, page, answer) ==
    IF listing.variant = variant /\ listing.limit = limit /\ listing.query = query
    THEN [listing EXCEPT !.pages = (page :> answer) @@ @]
    ELSE [variant |-> variant, limit |-> limit, query |-> query,
          pages |-> (page :> answer)]

\* GET /issues, the handler with the aggregate pipeline
ListIssuesAggregate(pageParam, limitParam, query) ==
    LET page == PageOf(pageParam)
        limit == LimitOf(limitParam)
    IN  /\ \E ord \in SortedOrders(Matching(query), "aggregate") :
              listing' = Listed("aggregate", limit, query, page, Answer(ord, page, limit))
        /\ resp' = Response("list", 200, "ok")
        /\ UNCHANGED <<db, now, mailbox, sessions, inflight>>

\* GET /issues, the handler with find().sort({priority: -1, createdAt: -1})
ListIssuesFind(pageParam, limitParam, query) ==
    LET page == PageOf(pageParam)
        limit == LimitOf(limitParam)
    IN  /\ \E ord \in SortedOrders(Matching(query), "find") :
              listing' = Listed("find", limit, query, page, Answer(ord, page, limit))
        /\ resp' = Response("list", 200, "ok")
        /\ UNCHANGED <<db, now, mailbox, sessions, inflight>>

\* The owner may $set createdAt: PATCH /issues/:id strips six fields, not this
\* one.  A value sent in JSON is no Date and sorts below every Date: 0.
ListEditBodies == {[createdAt |-> 0]}

NextList ==
    \/ Tick
    \/ \E body \in RegisterBodies : body.email \in Reporters /\ Register(body)
    \/ \E caller \in Reporters : CreateIssue(caller, MaxListIssues)
    \/ \E caller \in Reporters, id \in 1 .. MaxListIssues, body \in ListEditBodies :
          EditIssue(caller, id, body)
    \/ \E caller \in Reporters, id \in 1 .. MaxListIssues :
          RecordPayment(caller, "boost", id, MaxListPayments)
    \/ \E page \in 0 .. MaxPage, limit \in 0 .. MaxLimit, query \in ListQueries :
          ListIssuesAggregate(page, limit, query)
    \/ \E page \in 0 .. MaxPage, limit \in 0 .. MaxLimit, query \in ListQueries :
          ListIssuesFind(page, limit, query)

SpecList == Init /\ [][NextList]_vars

\* -------------------------------------------------------------- SpecConc
\* POST /issues and DELETE /issues/:id split at their awaits: every database
\* call is one step, and the checks between two calls run with the step that
\* follows them.  Requests of the same user interleave.
InFlight(op, caller, id, pc) == [op |-> op, caller |-> caller, id |-> id, pc |-> pc]

\* verifyCitizen: await usersCollection.findOne({email}), then next()
CreateStart(slot, caller) ==
    LET gate == VerifyCitizen(caller) IN
    /\ inflight[slot] = Idle
    /\ IF gate # 0
       THEN /\ resp' = Response("create", gate, "verifyCitizen")
            /\ UNCHANGED inflight
       ELSE /\ inflight' = [inflight EXCEPT ![slot] = InFlight("create", caller, 0, "findUser")]
            /\ UNCHANGED resp
    /\ UNCHANGED <<db, now, mailbox, sessions, listing>>

\* handler: await usersCollection.findOne({email}), then the three checks
CreateFindUser(slot) ==
    LET caller == inflight[slot].caller IN
    /\ inflight[slot].op = "create" /\ inflight[slot].pc = "findUser"
    /\ IF caller \notin DOMAIN users
       THEN /\ resp' = Response("create", 404, "noUser")
            /\ inflight' = [inflight EXCEPT ![slot] = Idle]
       ELSE IF users[caller].isBlocked
       THEN /\ resp' = Response("create", 403, "blocked")
            /\ inflight' = [inflight EXCEPT ![slot] = Idle]
       ELSE IF QuotaExceeded(users[caller])
       THEN /\ resp' = Response("create", 403, "needsPremium")
            /\ inflight' = [inflight EXCEPT ![slot] = Idle]
       ELSE /\ inflight' = [inflight EXCEPT ![slot].pc = "insert"]
            /\ UNCHANGED resp
    /\ UNCHANGED <<db, now, mailbox, sessions, listing>>

\* await issuesCollection.insertOne(newIssue)
CreateInsert(slot) ==
    /\ inflight[slot].op = "create" /\ inflight[slot].pc = "insert"
    /\ nextId <= MaxQuotaIssues
    /\ issues' = issues @@ (nextId :> NewIssue(inflight[slot].caller))
    /\ nextId' = nextId + 1
    /\ inflight' = [inflight EXCEPT ![slot].pc = "inc", ![slot].id = nextId]
    /\ UNCHANGED <<users, payments, now, mailbox, sessions, resp, listing>>

\* await usersCollection.updateOne({email}, {$inc: {issueCount: 1}}); res 201
CreateInc(slot) ==
    /\ inflight[slot].op = "create" /\ inflight[slot].pc = "inc"
    /\ users' = IncIssueCount(users, inflight[slot].caller, 1)
    /\ resp' = Response("create", 201, "ok")
    /\ inflight' = [inflight EXCEPT ![slot] = Idle]
    /\ UNCHANGED <<issues, nextId, payments, now, mailbox, sessions, listing>>

\* await issuesCollection.findOne({_id}), then the two checks
DeleteStart(slot, caller, id) ==
    /\ inflight[slot] = Idle
    /\ IF id \notin DOMAIN issues
       THEN /\ resp' = Response("delete", 404, "notFound")
            /\ UNCHANGED inflight
       ELSE IF issues[id].userEmail # caller
       THEN /\ resp' = Response("delete", 403, "owner")
            /\ UNCHANGED inflight
       ELSE /\ inflight' = [inflight EXCEPT ![slot] = InFlight("delete", caller, id, "deleteOne")]
            /\ UNCHANGED resp
    /\ UNCHANGED <<db, now, mailbox, sessions, listing>>

\* await issuesCollection.deleteOne({_id}): deletes nothing if it is gone
DeleteOne(slot) ==
    /\ inflight[slot].op = "delete" /\ inflight[slot].pc = "deleteOne"
    /\ issues' = Without(issues, inflight[slot].id)
    /\ inflight' = [inflight EXCEPT ![slot].pc = "inc"]
    /\ UNCHANGED <<users, nextId, payments, now, mailbox, sessions, resp, listing>>

\* await usersCollection.updateOne({email}, {$inc: {issueCount: -1}}); res 200
DeleteInc(slot) ==
    /\ inflight[slot].op = "delete" /\ inflight[slot].pc = "inc"
    /\ users' = IncIssueCount(users, inflight[slot].caller, -1)
    /\ resp' = Response("delete", 200, "ok")
    /\ inflight' = [inflight EXCEPT ![slot] = Idle]
    /\ UNCHANGED <<issues, nextId, payments, now, mailbox, sessions, listing>>

Slots == 1 .. MaxInFlight

NextConc ==
    \/ \E body \in RegisterBodies : body.email \in Reporters /\ Register(body)
    \/ \E slot \in Slots, caller \in Reporters : CreateStart(slot, caller)
    \/ \E slot \in Slots : CreateFindUser(slot)
    \/ \E slot \in Slots : CreateInsert(slot)
    \/ \E slot \in Slots : CreateInc(slot)
    \/ \E slot \in Slots, caller \in Reporters, id \in 1 .. MaxQuotaIssues :
          DeleteStart(slot, caller, id)
    \/ \E slot \in Slots : DeleteOne(slot)
    \/ \E slot \in Slots : DeleteInc(slot)
    \/ \E caller \in Reporters, email \in Accounts, body \in ProfileBodies :
          UpdateProfile(caller, email, body)
    \/ \E caller \in Reporters : RecordPayment(caller, "subscription", 0, MaxPayments)

SpecConc == Init /\ [][NextConc]_vars

\* --------------------------------------------------------- SpecIssuesConc
\* Only POST /issues and DELETE /issues/:id, split at their awaits: nothing
\* else writes issueCount.
NextIssuesConc ==
    \/ \E body \in PayRegisterBodies : Register(body)
    \/ \E slot \in Slots, caller \in Reporters : CreateStart(slot, caller)
    \/ \E slot \in Slots : CreateFindUser(slot)
    \/ \E slot \in Slots : CreateInsert(slot)
    \/ \E slot \in Slots : CreateInc(slot)
    \/ \E slot \in Slots, caller \in Payers, id \in 1 .. MaxQuotaIssues :
          DeleteStart(slot, caller, id)
    \/ \E slot \in Slots : DeleteOne(slot)
    \/ \E slot \in Slots : DeleteInc(slot)

SpecIssuesConc == Init /\ [][NextIssuesConc]_vars

\* --------------------------------------------------------- SpecUpvoteConc
\* POST /issues/:id/upvote split at its awaits.
\* await issuesCollection.findOne({_id}), then the three checks
UpvoteStart(slot, caller, id) ==
    /\ inflight[slot] = Idle
    /\ IF id \notin DOMAIN issues
       THEN /\ resp' = Response("upvote", 404, "notFound")
            /\ UNCHANGED inflight
       ELSE IF Includes(issues[id].upvotedBy, caller)
       THEN /\ resp' = Response("upvote", 400, "already")
            /\ UNCHANGED inflight
       ELSE IF issues[id].userEmail = caller
       THEN /\ resp' = Response("upvote", 403, "own")
            /\ UNCHANGED inflight
       ELSE /\ inflight' = [inflight EXCEPT
                 ![slot] = InFlight("upvote", caller, id, "updateOne")]
            /\ UNCHANGED resp
    /\ UNCHANGED <<db, sessions, mailbox, now, listing>>

\* await issuesCollection.updateOne({_id}, {$inc: {upvotes: 1}, $push:
\* {upvotedBy: userEmail}}); res 200
UpvoteUpdate(slot) ==
    LET id == inflight[slot].id IN
    /\ inflight[slot].op = "upvote" /\ inflight[slot].pc = "updateOne"
    /\ issues' = IF id \in DOMAIN issues
                 THEN [issues EXCEPT ![id].upvotes = @ + 1,
                                     ![id].upvotedBy = Append(@, inflight[slot].caller)]
                 ELSE issues
    /\ resp' = Response("upvote", 200, "ok")
    /\ inflight' = [inflight EXCEPT ![slot] = Idle]
    /\ UNCHANGED <<users, nextId, payments, sessions, mailbox, now, listing>>

NextUpvoteConc ==
    \/ \E body \in PayRegisterBodies : Register(body)
    \/ \E caller \in Reporters : CreateIssue(caller, MaxReadIssues)
    \/ \E slot \in Slots, caller \in Upvoters, id \in 1 .. MaxReadIssues :
          UpvoteStart(slot, caller, id)
    \/ \E slot \in Slots : UpvoteUpdate(slot)

SpecUpvoteConc == Init /\ [][NextUpvoteConc]_vars

\* --------------------------------------------------------- SpecAssignConc
\* PATCH /admin/issues/:id/assign and DELETE /staff/:email split at their
\* awaits.  target is the staff email of the request.
InFlightFor(op, caller, id, target, pc) ==
    [op |-> op, caller |-> caller, id |-> id, target |-> target, pc |-> pc]

\* verifyAdmin, await issuesCollection.findOne({_id}), then the two checks
AssignStart(slot, caller, id, staffEmail) ==
    LET gate == VerifyAdmin(caller) IN
    /\ inflight[slot] = Idle
    /\ IF gate # 0
       THEN /\ resp' = Response("assign", gate, "verifyAdmin")
            /\ UNCHANGED inflight
       ELSE IF id \notin DOMAIN issues
       THEN /\ resp' = Response("assign", 404, "notFound")
            /\ UNCHANGED inflight
       ELSE IF issues[id].assignedStaff # Null
       THEN /\ resp' = Response("assign", 400, "assigned")
            /\ UNCHANGED inflight
       ELSE /\ inflight' = [inflight EXCEPT
                 ![slot] = InFlightFor("assign", caller, id, staffEmail, "findStaff")]
            /\ UNCHANGED resp
    /\ UNCHANGED <<db, sessions, mailbox, now, listing>>

\* await usersCollection.findOne({email: staffEmail, role: 'staff'})
AssignFindStaff(slot) ==
    LET staffEmail == inflight[slot].target IN
    /\ inflight[slot].op = "assign" /\ inflight[slot].pc = "findStaff"
    /\ IF staffEmail \notin DOMAIN users \/ users[staffEmail].role # "staff"
       THEN /\ resp' = Response("assign", 404, "noStaff")
            /\ inflight' = [inflight EXCEPT ![slot] = Idle]
       ELSE /\ inflight' = [inflight EXCEPT ![slot].pc = "updateIssue"]
            /\ UNCHANGED resp
    /\ UNCHANGED <<db, sessions, mailbox, now, listing>>

\* await issuesCollection.updateOne({_id}, {$set: {assignedStaff}, $push: {timeline}})
AssignUpdateIssue(slot) ==
    LET id == inflight[slot].id IN
    /\ inflight[slot].op = "assign" /\ inflight[slot].pc = "updateIssue"
    /\ issues' = IF id \in DOMAIN issues
                 THEN [issues EXCEPT
                         ![id].assignedStaff = inflight[slot].target,
                         ![id].timeline =
                            Append(@, TimelineEntry("assigned", inflight[slot].caller, "admin"))]
                 ELSE issues
    /\ inflight' = [inflight EXCEPT ![slot].pc = "inc"]
    /\ UNCHANGED <<users, nextId, payments, sessions, mailbox, now, resp, listing>>

\* await usersCollection.updateOne({email: staffEmail}, {$inc:
\* {assignedIssuesCount: 1}}); res 200
AssignInc(slot) ==
    LET staffEmail == inflight[slot].target IN
    /\ inflight[slot].op = "assign" /\ inflight[slot].pc = "inc"
    /\ users' = IF staffEmail \in DOMAIN users
                THEN [users EXCEPT ![staffEmail].assignedIssuesCount = @ + 1]
                ELSE users
    /\ resp' = Response("assign", 200, "ok")
    /\ inflight' = [inflight EXCEPT ![slot] = Idle]
    /\ UNCHANGED <<issues, nextId, payments, sessions, mailbox, now, listing>>

\* verifyAdmin, await issuesCollection.countDocuments({'assignedStaff.email': email})
DeleteStaffStart(slot, caller, email) ==
    LET gate == VerifyAdmin(caller) IN
    /\ inflight[slot] = Idle
    /\ IF gate # 0
       THEN /\ resp' = Response("deleteStaff", gate, "verifyAdmin")
            /\ UNCHANGED inflight
       ELSE IF AssignedCount(email) > 0
       THEN /\ resp' = Response("deleteStaff", 400, "assigned")
            /\ UNCHANGED inflight
       ELSE /\ inflight' = [inflight EXCEPT
                 ![slot] = InFlightFor("deleteStaff", caller, 0, email, "deleteOne")]
            /\ UNCHANGED resp
    /\ UNCHANGED <<db, sessions, mailbox, now, listing>>

\* await usersCollection.deleteOne({email, role: 'staff'}), deletedCount
DeleteStaffDelete(slot) ==
    LET email == inflight[slot].target IN
    /\ inflight[slot].op = "deleteStaff" /\ inflight[slot].pc = "deleteOne"
    /\ IF email \notin DOMAIN users \/ users[email].role # "staff"
       THEN /\ resp' = Response("deleteStaff", 404, "notFound")
            /\ UNCHANGED users
       ELSE /\ users' = Without(users, email)
            /\ resp' = Response("deleteStaff", 200, "ok")
    /\ inflight' = [inflight EXCEPT ![slot] = Idle]
    /\ UNCHANGED <<issues, nextId, payments, sessions, mailbox, now, listing>>

AssignRegisterBodies == RegisterBodies \cup {[email |-> "carol", role |-> "staff"]}

Staffers == {"bob", "carol"}

NextAssignConc ==
    \/ \E body \in AssignRegisterBodies : Register(body)
    \/ \E caller \in Reporters : CreateIssue(caller, MaxIssues)
    \/ \E slot \in Slots, caller \in {"root"}, id \in IssueIds, staffEmail \in Staffers :
          AssignStart(slot, caller, id, staffEmail)
    \/ \E slot \in Slots : AssignFindStaff(slot)
    \/ \E slot \in Slots : AssignUpdateIssue(slot)
    \/ \E slot \in Slots : AssignInc(slot)
    \/ \E slot \in Slots, caller \in {"root"}, email \in Staffers :
          DeleteStaffStart(slot, caller, email)
    \/ \E slot \in Slots : DeleteStaffDelete(slot)

SpecAssignConc == Init /\ [][NextAssignConc]_vars

\* ----------------------------------------------------------- SpecPayConc
\* POST /payments/verify-payment split at its awaits.
\* await stripe.checkout.sessions.retrieve(sessionId), then the three checks
VerifyStart(slot, caller, sessionId) ==
    /\ inflight[slot] = Idle
    /\ IF sessionId = 0
       THEN /\ resp' = Response("verify", 400, "noSessionId")
            /\ UNCHANGED inflight
       ELSE IF sessionId \notin DOMAIN sessions
       THEN /\ resp' = Response("verify", 500, "retrieve")
            /\ UNCHANGED inflight
       ELSE IF ~SessionBelongsTo(sessions[sessionId], caller)
       THEN /\ resp' = Response("verify", 403, "session")
            /\ UNCHANGED inflight
       ELSE IF sessions[sessionId].payment_status # "paid"
       THEN /\ resp' = Response("verify", 400, "unpaid")
            /\ UNCHANGED inflight
       ELSE /\ inflight' = [inflight EXCEPT
                 ![slot] = InFlight("verify", caller, sessionId, "findPayment")]
            /\ UNCHANGED resp
    /\ UNCHANGED <<db, sessions, now, mailbox, listing>>

\* await paymentsCollection.findOne({transactionId: sessionId})
VerifyFindPayment(slot) ==
    /\ inflight[slot].op = "verify" /\ inflight[slot].pc = "findPayment"
    /\ IF ExistingPayment(inflight[slot].id)
       THEN /\ resp' = Response("verify", 200, "already")
            /\ inflight' = [inflight EXCEPT ![slot] = Idle]
       ELSE /\ inflight' = [inflight EXCEPT ![slot].pc = "findUser"]
            /\ UNCHANGED resp
    /\ UNCHANGED <<db, sessions, now, mailbox, listing>>

\* await usersCollection.findOne({email}): only the name is read
VerifyFindUser(slot) ==
    /\ inflight[slot].op = "verify" /\ inflight[slot].pc = "findUser"
    /\ inflight' = [inflight EXCEPT ![slot].pc = "insert"]
    /\ UNCHANGED <<db, sessions, now, mailbox, resp, listing>>

\* await paymentsCollection.insertOne(payment)
VerifyInsert(slot) ==
    LET meta == sessions[inflight[slot].id].metadata IN
    /\ inflight[slot].op = "verify" /\ inflight[slot].pc = "insert"
    /\ Len(payments) < MaxVerified
    /\ payments' = Append(payments,
          PaymentOf(inflight[slot].caller, PaymentTypeOf(meta.type), meta.issueId,
                    inflight[slot].id))
    /\ inflight' = [inflight EXCEPT ![slot].pc = "apply"]
    /\ UNCHANGED <<users, issues, nextId, sessions, now, mailbox, resp, listing>>

\* the updateOne of the payment type, then res.send
VerifyApply(slot) ==
    LET meta == sessions[inflight[slot].id].metadata IN
    /\ inflight[slot].op = "verify" /\ inflight[slot].pc = "apply"
    /\ users' = ApplyPayment(users, inflight[slot].caller, meta.type)
    /\ issues' = IF meta.type = "boost" /\ meta.issueId # 0
                 THEN Boost(issues, meta.issueId, inflight[slot].caller)
                 ELSE issues
    /\ resp' = Response("verify", 200, "ok")
    /\ inflight' = [inflight EXCEPT ![slot] = Idle]
    /\ UNCHANGED <<nextId, payments, sessions, now, mailbox, listing>>

NextPayConc ==
    \/ \E body \in PayRegisterBodies : Register(body)
    \/ \E caller \in Reporters : CreateIssue(caller, MaxPayIssues)
    \/ \E caller \in Reporters, type \in SessionTypes, issueId \in 0 .. MaxPayIssues :
          CreateCheckoutSession(caller, type, issueId)
    \/ \E sessionId \in 1 .. MaxSessions : StripePay(sessionId)
    \/ \E slot \in Slots, caller \in Payers, sessionId \in 0 .. MaxSessions :
          VerifyStart(slot, caller, sessionId)
    \/ \E slot \in Slots : VerifyFindPayment(slot)
    \/ \E slot \in Slots : VerifyFindUser(slot)
    \/ \E slot \in Slots : VerifyInsert(slot)
    \/ \E slot \in Slots : VerifyApply(slot)

SpecPayConc == Init /\ [][NextPayConc]_vars

\* -------------------------------------------------------------- SpecToken
\* jwt.sign(user, secret, {expiresIn: '7d'}): the payload, the key that
\* signed it and whether the seven days are over
Jwt(email, signedWith, expired) ==
    [email |-> email, signedWith |-> signedWith, expired |-> expired]

\* The Authorization header as its words between spaces; <<>> is no header.
Headers ==
    {<<>>, <<"Bearer">>}
    \cup {<<"Bearer", Jwt(email, key, expired)>> :
             email \in {"alice", "root"}, key \in {"JWT_SECRET", "other"},
             expired \in BOOLEAN}

\* req.headers.authorization?.split(' ')[1] is defined
HasToken(header) == Len(header) >= 2

\* req.headers.authorization?.split(' ')[1]
TokenOf(header) == header[2]

JwtVerifyLax(token) == ~token.expired

\* jwt.verify(token, process.env.JWT_SECRET, ...) calls back without err
JwtVerify(token) == token.signedWith = "JWT_SECRET" /\ ~token.expired

\* verifyToken: 0 stands for next(), with req.user = decoded
VerifyToken(header) ==
    IF ~HasToken(header) THEN 401
    ELSE IF ~JwtVerify(TokenOf(header)) THEN 403
    ELSE 0

\* the answer of verifyToken: nothing behind it in the route runs
Unauthorized(op, header) ==
    /\ VerifyToken(header) # 0
    /\ resp' = Response(op, VerifyToken(header), "verifyToken")
    /\ UNCHANGED <<db, sessions, now, mailbox, listing, inflight>>

\* req.user of the handler
Decoded(header) == TokenOf(header).email

\* router.post('/', verifyToken, verifyCitizen, handler)
PostIssue(header) ==
    \/ Unauthorized("create", header)
    \/ VerifyToken(header) = 0 /\ CreateIssue(Decoded(header), MaxIssues)

\* router.delete('/:id', verifyToken, handler)
DeleteIssueRoute(header, id) ==
    \/ Unauthorized("delete", header)
    \/ VerifyToken(header) = 0 /\ DeleteIssue(Decoded(header), id)

\* router.patch('/issues/:id/reject', verifyToken, verifyAdmin, handler)
RejectIssueRoute(header, id) ==
    \/ Unauthorized("reject", header)
    \/ VerifyToken(header) = 0 /\ RejectIssue(Decoded(header), id)

\* router.post('/', verifyToken, handler) of the payments router
PostPayment(header, type, issueId) ==
    \/ Unauthorized("payment", header)
    \/ VerifyToken(header) = 0 /\ RecordPayment(Decoded(header), type, issueId, MaxPayments)

TokenRegisterBodies ==
    {[email |-> "alice", role |-> "citizen"], [email |-> "root", role |-> "admin"]}

NextToken ==
    \/ \E body \in TokenRegisterBodies : Register(body)
    \/ \E header \in Headers : PostIssue(header)
    \/ \E header \in Headers, id \in IssueIds : DeleteIssueRoute(header, id)
    \/ \E header \in Headers, id \in IssueIds : RejectIssueRoute(header, id)
    \/ \E header \in Headers, type \in PaymentTypes, issueId \in 0 .. MaxIssues :
          PostPayment(header, type, issueId)

SpecToken == Init /\ [][NextToken]_vars

\* --------------------------------------------------------------- SpecRead
\* The answer of a read: the records sent, each with the field that names
\* its owner as the collection stores it.
ReadResponse(op, code, reason, data) ==
    [op |-> op, code |-> code, reason |-> reason, data |-> data]

Record(owner, id) == [owner |-> owner, id |-> id]

IsSelfLax(caller, email) == TRUE

\* email !== req.user.email (negated)
IsSelf(caller, email) == email = caller

\* find({userEmail: email}) on the issues collection
UserIssues(email) ==
    {Record(issues[id].userEmail, id) : id \in {i \in DOMAIN issues : issues[i].userEmail = email}}

\* find({userEmail: email}) on the payments collection
UserPayments(email) ==
    {Record(payments[k].userEmail, k) :
        k \in {j \in DOMAIN payments : payments[j].userEmail = email}}

\* find({recipientEmail: email}) on the messages collection
UserMessages(email) ==
    {Record(mailbox.messages[k].recipientEmail, k) :
        k \in {j \in DOMAIN mailbox.messages : mailbox.messages[j].recipientEmail = email}}

\* find({userEmail: email}) on the notifications collection
UserNotifications(email) ==
    {Record(mailbox.notifications[k].userEmail, k) :
        k \in {j \in DOMAIN mailbox.notifications :
                 mailbox.notifications[j].userEmail = email}}

\* a read handler: the :email check, then the records found
ReadOwn(op, caller, email, needsUser, data) ==
    /\ IF ~IsSelf(caller, email)
       THEN resp' = ReadResponse(op, 403, "forbidden", {})
       ELSE IF needsUser /\ email \notin DOMAIN users
       THEN resp' = ReadResponse(op, 404, "noUser", {})
       ELSE resp' = ReadResponse(op, 200, "ok", data)
    /\ UNCHANGED <<db, sessions, mailbox, now, listing, inflight>>

\* GET /issues/user/:email
GetUserIssues(caller, email) ==
    ReadOwn("userIssues", caller, email, FALSE, UserIssues(email))

\* GET /payments/user/:email
GetUserPayments(caller, email) ==
    ReadOwn("userPayments", caller, email, FALSE, UserPayments(email))

\* GET /auth/users/:email: usersCollection.findOne({email})
GetUser(caller, email) ==
    ReadOwn("user", caller, email, TRUE, {Record(email, 0)})

\* GET /users/:email/stats: the user's counters and the count of the payments
\* found by find({userEmail: email})
GetUserStats(caller, email) ==
    ReadOwn("userStats", caller, email, TRUE,
            {Record(email, Cardinality(UserPayments(email)))})

\* GET /messages/:email
GetMessages(caller, email) ==
    ReadOwn("messages", caller, email, FALSE, UserMessages(email))

\* GET /notifications/:email
GetNotifications(caller, email) ==
    ReadOwn("notifications", caller, email, FALSE, UserNotifications(email))

\* createMessage(recipientEmail, ...)
CreateMessage(recipientEmail) ==
    /\ Len(mailbox.messages) < MaxMail
    /\ mailbox' = [mailbox EXCEPT
          !.messages = Append(@, [recipientEmail |-> recipientEmail])]
    /\ resp' = Response("createMessage", 0, "")
    /\ UNCHANGED <<db, sessions, now, listing, inflight>>

\* createNotification(userEmail, ...)
CreateNotification(userEmail) ==
    /\ Len(mailbox.notifications) < MaxMail
    /\ mailbox' = [mailbox EXCEPT
          !.notifications = Append(@, [userEmail |-> userEmail])]
    /\ resp' = Response("createNotification", 0, "")
    /\ UNCHANGED <<db, sessions, now, listing, inflight>>

NextRead ==
    \/ \E body \in PayRegisterBodies : Register(body)
    \/ \E caller \in Payers : CreateIssue(caller, MaxReadIssues)
    \/ \E caller \in Payers : RecordPayment(caller, "subscription", 0, MaxPayments)
    \/ \E email \in Payers : CreateMessage(email)
    \/ \E email \in Payers : CreateNotification(email)
    \/ \E caller \in Payers, email \in Payers : GetUserIssues(caller, email)
    \/ \E caller \in Payers, email \in Payers : GetUserPayments(caller, email)
    \/ \E caller \in Payers, email \in Payers : GetUser(caller, email)
    \/ \E caller \in Payers, email \in Payers : GetUserStats(caller, email)
    \/ \E caller \in Payers, email \in Payers : GetMessages(caller, email)
    \/ \E caller \in Payers, email \in Payers : GetNotifications(caller, email)

SpecRead == Init /\ [][NextRead]_vars

\* --------------------------------------------------------------- SpecEdit
\* Bodies of PATCH /issues/:id: fields the handler deletes, and paths into
\* the fields it means to protect.
EditFrameBodies ==
    EditBodies
    \cup {[userEmail |-> "bob", upvotes |-> 9]}
    \cup {("assignedStaff.email" :> "root"), ("upvotedBy.0" :> "alice")}

NextEdit ==
    \/ \E body \in RegisterBodies : Register(body)
    \/ \E caller \in Reporters : CreateIssue(caller, MaxIssues)
    \/ \E caller \in {"root"}, id \in IssueIds, staffEmail \in StaffAccounts :
          AssignStaff(caller, id, staffEmail)
    \/ \E caller \in Upvoters, id \in IssueIds : UpvoteIssue(caller, id)
    \/ \E caller \in StaffAccounts, id \in IssueIds, status \in Statuses :
          UpdateIssueStatus(caller, id, status)
    \/ \E caller \in Upvoters, id \in IssueIds, body \in EditFrameBodies :
          EditIssue(caller, id, body)

SpecEdit == Init /\ [][NextEdit]_vars

\* --------------------------------------------------------------- SpecFail
\* POST /issues (verifyCitizen, then the handler) and PATCH
\* /admin/users/:email/block (verifyAdmin, then the handler) split at their
\* awaits.  ok says whether the awaited database operation resolved (TRUE)
\* or rejected (FALSE).  A request stays in its slot with pc "done" once it
\* is answered; answers counts the responses sent for it, failed says that
\* one of its database operations rejected, after that it was received when
\* an earlier request had already failed.
Request(op, caller, target, arg, pc, after) ==
    [op |-> op, caller |-> caller, id |-> 0, target |-> target, arg |-> arg,
     pc |-> pc, answers |-> 0, failed |-> FALSE, after |-> after]

\* the body every catch block of a handler or role middleware sends
ErrorResponse(op) == [op |-> op, code |-> 500, reason |-> "catch", success |-> FALSE]

\* return res.status(code).send(...)
Respond(slot, response) ==
    /\ inflight' = [inflight EXCEPT ![slot].pc = "done", ![slot].answers = @ + 1]
    /\ resp' = response

\* a catch block that logs the error and sends nothing
ThrowSwallowed(slot) ==
    /\ inflight' = [inflight EXCEPT ![slot].pc = "done", ![slot].failed = TRUE]
    /\ UNCHANGED resp

\* the awaited operation rejects: catch (error) { res.status(500).send(...) }
Throw(slot) ==
    /\ inflight' = [inflight EXCEPT ![slot].pc = "done", ![slot].answers = @ + 1,
                                    ![slot].failed = TRUE]
    /\ resp' = ErrorResponse(inflight[slot].op)

FailedBefore == \E slot \in Slots : inflight[slot] # Idle /\ inflight[slot].failed

\* POST /issues arrives
ReceiveCreate(slot, caller) ==
    /\ inflight[slot] = Idle
    /\ inflight' = [inflight EXCEPT
          ![slot] = Request("create", caller, "", FALSE, "verifyCitizen", FailedBefore)]
    /\ UNCHANGED <<db, sessions, mailbox, now, resp, listing>>

\* verifyCitizen: await usersCollection.findOne({email})
TryVerifyCitizen(slot, ok) ==
    LET gate == VerifyCitizen(inflight[slot].caller) IN
    /\ inflight[slot].op = "create" /\ inflight[slot].pc = "verifyCitizen"
    /\ IF ~ok THEN Throw(slot)
       ELSE IF gate # 0 THEN Respond(slot, Response("create", gate, "verifyCitizen"))
       ELSE inflight' = [inflight EXCEPT ![slot].pc = "findUser"] /\ UNCHANGED resp
    /\ UNCHANGED <<db, sessions, mailbox, now, listing>>

\* handler: await usersCollection.findOne({email: userEmail}), then the checks
TryFindUser(slot, ok) ==
    LET caller == inflight[slot].caller IN
    /\ inflight[slot].op = "create" /\ inflight[slot].pc = "findUser"
    /\ IF ~ok THEN Throw(slot)
       ELSE IF caller \notin DOMAIN users
       THEN Respond(slot, Response("create", 404, "noUser"))
       ELSE IF users[caller].isBlocked
       THEN Respond(slot, Response("create", 403, "blocked"))
       ELSE IF QuotaExceeded(users[caller])
       THEN Respond(slot, Response("create", 403, "needsPremium"))
       ELSE inflight' = [inflight EXCEPT ![slot].pc = "insert"] /\ UNCHANGED resp
    /\ UNCHANGED <<db, sessions, mailbox, now, listing>>

\* await issuesCollection.insertOne(newIssue)
TryInsert(slot, ok) ==
    /\ inflight[slot].op = "create" /\ inflight[slot].pc = "insert"
    /\ IF ~ok
       THEN Throw(slot) /\ UNCHANGED <<issues, nextId>>
       ELSE /\ nextId <= MaxIssues
            /\ issues' = issues @@ (nextId :> NewIssue(inflight[slot].caller))
            /\ nextId' = nextId + 1
            /\ inflight' = [inflight EXCEPT ![slot].pc = "inc", ![slot].id = nextId]
            /\ UNCHANGED resp
    /\ UNCHANGED <<users, payments, sessions, mailbox, now, listing>>

\* await usersCollection.updateOne({email}, {$inc: {issueCount: 1}}); res 201
TryInc(slot, ok) ==
    /\ inflight[slot].op = "create" /\ inflight[slot].pc = "inc"
    /\ IF ~ok
       THEN Throw(slot) /\ UNCHANGED users
       ELSE /\ users' = IncIssueCount(users, inflight[slot].caller, 1)
            /\ Respond(slot, Response("create", 201, "ok"))
    /\ UNCHANGED <<issues, nextId, payments, sessions, mailbox, now, listing>>

\* PATCH /admin/users/:email/block arrives
ReceiveBlock(slot, caller, email, isBlocked) ==
    /\ inflight[slot] = Idle
    /\ inflight' = [inflight EXCEPT
          ![slot] = Request("block", caller, email, isBlocked, "verifyAdmin", FailedBefore)]
    /\ UNCHANGED <<db, sessions, mailbox, now, resp, listing>>

\* verifyAdmin: await usersCollection.findOne({email})
TryVerifyAdmin(slot, ok) ==
    LET gate == VerifyAdmin(inflight[slot].caller) IN
    /\ inflight[slot].op = "block" /\ inflight[slot].pc = "verifyAdmin"
    /\ IF ~ok THEN Throw(slot)
       ELSE IF gate # 0 THEN Respond(slot, Response("block", gate, "verifyAdmin"))
       ELSE inflight' = [inflight EXCEPT ![slot].pc = "updateOne"] /\ UNCHANGED resp
    /\ UNCHANGED <<db, sessions, mailbox, now, listing>>

\* handler: await usersCollection.updateOne({email}, {$set: {isBlocked}}),
\* matchedCount
TryBlock(slot, ok) ==
    LET email == inflight[slot].target IN
    /\ inflight[slot].op = "block" /\ inflight[slot].pc = "updateOne"
    /\ IF ~ok
       THEN Throw(slot) /\ UNCHANGED users
       ELSE IF email \notin DOMAIN users
       THEN Respond(slot, Response("block", 404, "notFound")) /\ UNCHANGED users
       ELSE /\ users' = [users EXCEPT ![email].isBlocked = inflight[slot].arg]
            /\ Respond(slot, Response("block", 200, "ok"))
    /\ UNCHANGED <<issues, nextId, payments, sessions, mailbox, now, listing>>

\* the answered request leaves the server
Finish(slot) ==
    /\ inflight[slot] # Idle /\ inflight[slot].pc = "done"
    /\ inflight' = [inflight EXCEPT ![slot] = Idle]
    /\ UNCHANGED <<db, sessions, mailbox, now, resp, listing>>

NextFail ==
    \/ \E body \in RegisterBodies : Register(body)
    \/ \E slot \in Slots, caller \in Reporters : ReceiveCreate(slot, caller)
    \/ \E slot \in Slots, ok \in BOOLEAN : TryVerifyCitizen(slot, ok)
    \/ \E slot \in Slots, ok \in BOOLEAN : TryFindUser(slot, ok)
    \/ \E slot \in Slots, ok \in BOOLEAN : TryInsert(slot, ok)
    \/ \E slot \in Slots, ok \in BOOLEAN : TryInc(slot, ok)
    \/ \E slot \in Slots, caller \in {"root"}, email \in Reporters, isBlocked \in BOOLEAN :
          ReceiveBlock(slot, caller, email, isBlocked)
    \/ \E slot \in Slots, ok \in BOOLEAN : TryVerifyAdmin(slot, ok)
    \/ \E slot \in Slots, ok \in BOOLEAN : TryBlock(slot, ok)
    \/ \E slot \in Slots : Finish(slot)

SpecFail == Init /\ [][NextFail]_vars

\* ================================================================ claims
IsAdmin(caller) == caller \in DOMAIN users /\ users[caller].role = "admin"
IsStaffOrAdmin(caller) ==
    caller \in DOMAIN users /\ users[caller].role \in {"staff", "admin"}

StaffEdges ==
    {<<"pending", "in-progress">>, <<"in-progress", "working">>,
     <<"in-progress", "resolved">>, <<"working", "resolved">>,
     <<"resolved", "closed">>}

LifecycleEdges == StaffEdges \cup {<<"pending", "rejected">>}

\* the timeline of issue id grew by exactly one entry, of that status and role
AppendedEntry(id, status, role) ==
    LET old == issues[id].timeline
        new == issues'[id].timeline
    IN  /\ Len(new) = Len(old) + 1
        /\ SubSeq(new, 1, Len(old)) = old
        /\ new[Len(new)].status = status
        /\ new[Len(new)].updatedByRole = role

\* every issue but id is as it was
OthersUnchanged(id) ==
    /\ DOMAIN issues' = DOMAIN issues
    /\ \A other \in DOMAIN issues \ {id} : issues'[other] = issues[other]

\* C1: a staff status update (by its assigned staff member) moves an issue
\* from s to t only along pending->in-progress, in-progress->working,
\* in-progress->resolved, working->resolved, resolved->closed; for every other
\* pair (closed, rejected and t = s included) the answer is 400 and the issues
\* (status and timeline) are unchanged.
C1_StaffTransitionTable ==
    [][resp'.op = "staffStatus" =>
       \A caller \in Emails, id \in IssueIds, t \in Statuses :
          UpdateIssueStatus(caller, id, t) =>
             /\ (id \in DOMAIN issues /\ issues'[id].status # issues[id].status)
                   => /\ <<issues[id].status, t>> \in StaffEdges
                      /\ issues'[id].status = t
             /\ resp'.code = 200
                   => /\ <<issues[id].status, t>> \in StaffEdges
                      /\ issues'[id].status = t
             /\ ( /\ IsStaffOrAdmin(caller)
                  /\ id \in DOMAIN issues
                  /\ issues[id].assignedStaff = caller
                  /\ <<issues[id].status, t>> \notin StaffEdges )
                   => resp'.code = 400 /\ issues' = issues
      ]_vars

C1_Witness ==
    /\ resp.op = "staffStatus" /\ resp.code = 400 /\ resp.reason = "transition"
    /\ \E id \in DOMAIN issues : issues[id].status = "closed"

\* C2: an issue is created pending, and in every step of every operation its
\* status stays or moves along one edge of the lifecycle graph (the staff edges
\* and pending->rejected); so closed and rejected are terminal and no status
\* moves backwards.
C2_LifecycleEdgesOnly ==
    [][\A id \in DOMAIN issues' :
          IF id \in DOMAIN issues
          THEN \/ issues'[id].status = issues[id].status
               \/ <<issues[id].status, issues'[id].status>> \in LifecycleEdges
          ELSE issues'[id].status = "pending"
      ]_vars

C2_Witness ==
    \E id \in DOMAIN issues :
        /\ issues[id].status = "closed" /\ Len(issues[id].timeline) >= 6
        /\ issues[id].priority = "high" /\ issues[id].upvotes > 0

\* C3: an admin's reject of a pending issue sets its status to rejected and
\* appends one timeline entry (rejected, admin); of an issue in any other
\* status it answers 400 and changes nothing; of a missing issue it answers 404.
C3_RejectOnlyPending ==
    [][resp'.op = "reject" =>
       \A caller \in Emails, id \in IssueIds :
          (RejectIssue(caller, id) /\ IsAdmin(caller)) =>
             IF id \notin DOMAIN issues
             THEN resp'.code = 404 /\ UNCHANGED db
             ELSE IF issues[id].status = "pending"
             THEN /\ resp'.code = 200
                  /\ issues'[id].status = "rejected"
                  /\ AppendedEntry(id, "rejected", "admin")
                  /\ OthersUnchanged(id)
             ELSE resp'.code = 400 /\ UNCHANGED db
      ]_vars

C3_Witness ==
    /\ resp.op = "reject" /\ resp.code = 200
    /\ \E id \in DOMAIN issues :
          /\ issues[id].status = "rejected"
          /\ issues[id].timeline[Len(issues[id].timeline)].status = "rejected"

\* C4: a staff status update changes an issue only if the caller's email is
\* the issue's assignedStaff.email; a caller with role staff or admin who is
\* not the assigned staff member (an unassigned issue included) gets 403 and
\* nothing changes.
C4_OnlyAssignedStaff ==
    [][resp'.op = "staffStatus" =>
       \A caller \in Emails, id \in IssueIds, t \in Statuses :
          UpdateIssueStatus(caller, id, t) =>
             /\ (issues' # issues \/ resp'.code = 200)
                   => id \in DOMAIN issues /\ issues[id].assignedStaff = caller
             /\ ( /\ IsStaffOrAdmin(caller)
                  /\ id \in DOMAIN issues
                  /\ issues[id].assignedStaff # caller )
                   => resp'.code = 403 /\ UNCHANGED db
      ]_vars

C4_Witness ==
    /\ resp.op = "staffStatus" /\ resp.code = 403 /\ resp.reason = "assigned"
    /\ \E id \in DOMAIN issues : issues[id].assignedStaff = "bob"
    /\ IsAdmin("root")

AdminOps ==
    {"assign", "reject", "block", "createStaff", "updateStaff", "deleteStaff",
     "listPayments", "stats"}

GatedOps == AdminOps \cup {"staffStatus"}

AdminStep(caller) ==
    \/ \E id \in IssueIds, staffEmail \in Emails : AssignStaff(caller, id, staffEmail)
    \/ \E id \in IssueIds : RejectIssue(caller, id)
    \/ \E email \in Accounts, isBlocked \in BOOLEAN : BlockUser(caller, email, isBlocked)
    \/ \E op \in {"listPayments", "stats"} : AdminRead(caller, op)
    \/ \E email \in StaffAccounts : CreateStaff(caller, email)
    \/ \E email \in StaffAccounts, body \in StaffBodies : UpdateStaff(caller, email, body)
    \/ \E email \in StaffAccounts : DeleteStaff(caller, email)

StaffStep(caller) ==
    \E id \in IssueIds, t \in Statuses : UpdateIssueStatus(caller, id, t)

\* C5: an admin operation runs its handler only for a caller whose user
\* document has role admin; any other caller is answered 403 (404 without a
\* user document) by the role check and nothing changes.  A staff operation
\* runs its handler only for role staff or admin.
C5_RoleGates ==
    [][resp'.op \in GatedOps =>
       \A caller \in Emails :
          /\ AdminStep(caller) =>
                IF caller \notin DOMAIN users
                THEN resp'.code = 404 /\ resp'.reason = "verifyAdmin" /\ UNCHANGED db
                ELSE IF users[caller].role # "admin"
                THEN resp'.code = 403 /\ resp'.reason = "verifyAdmin" /\ UNCHANGED db
                ELSE resp'.reason # "verifyAdmin"
          /\ StaffStep(caller) =>
                IF caller \notin DOMAIN users
                THEN resp'.code = 404 /\ resp'.reason = "verifyStaff" /\ UNCHANGED db
                ELSE IF users[caller].role \notin {"staff", "admin"}
                THEN resp'.code = 403 /\ resp'.reason = "verifyStaff" /\ UNCHANGED db
                ELSE resp'.reason # "verifyStaff"
      ]_vars

C5_Witness ==
    /\ resp.op \in AdminOps
    /\ resp.code = 403 /\ resp.reason = "verifyAdmin"
    /\ \E id \in DOMAIN issues : issues[id].status = "pending"
    /\ "bob" \in DOMAIN users /\ "root" \in DOMAIN users

\* issuesCollection documents whose userEmail is email
OwnedBy(email) == {id \in DOMAIN issues : issues[id].userEmail = email}

\* C8: create-issue by a non-premium user whose issueCount is 3 or more
\* (and who passes the blocked checks that come first) answers 403 with
\* needsPremium, inserts nothing and leaves issueCount as it is; blocked or
\* not, no issue is inserted for such a user.  A premium user is never
\* answered needsPremium, whatever the issueCount.
C8_FreeQuota ==
    [][resp'.op = "create" =>
       \A caller \in Reporters :
          (CreateIssue(caller, MaxQuotaIssues) /\ caller \in DOMAIN users) =>
             /\ (~users[caller].isPremium /\ users[caller].issueCount >= 3)
                   => /\ resp'.code = 403
                      /\ UNCHANGED db
                      /\ ~users[caller].isBlocked => resp'.reason = "needsPremium"
             /\ users[caller].isPremium
                   => /\ resp'.reason # "needsPremium"
                      /\ ~users[caller].isBlocked
                            => /\ resp'.code = 201
                               /\ Cardinality(OwnedBy(caller)') = Cardinality(OwnedBy(caller)) + 1
      ]_vars

C8_Witness ==
    /\ resp.op = "create" /\ resp.code = 403 /\ resp.reason = "needsPremium"
    /\ "alice" \in DOMAIN users
    /\ ~users["alice"].isPremium
    /\ users["alice"].issueCount = 3
    /\ Cardinality(OwnedBy("alice")) = 3

\* C9: in every reachable state a user who is not premium owns at most 3
\* issues of the issues collection.
C9_FreeUserOwnsAtMostThree ==
    \A email \in DOMAIN users :
        ~users[email].isPremium => Cardinality(OwnedBy(email)) <= 3

\* C10: in every reachable state a user with isPremium true has a payment
\* document of type subscription, status completed and that user's email.
C10_PremiumIsPaid ==
    \A email \in DOMAIN users :
        users[email].isPremium =>
            \E k \in DOMAIN payments :
                /\ payments[k].type = "subscription"
                /\ payments[k].status = "completed"
                /\ payments[k].userEmail = email

ListingCurrent == listing.variant # "none"

HighMatching == {id \in Matching(listing.query) : issues[id].priority = "high"}

\* x, the k-th issue of page p, and y, the m-th of page q, in listing order
ListedBefore(p, k, q, m) == p < q \/ (p = q /\ k < m)

\* C6: in the order from which GET /issues cuts its pages, every matching
\* issue with priority high comes before every matching issue of another
\* priority (the r-th issue of the order is boosted exactly when r is at most
\* the number of matching boosted issues), and issues of equal priority are
\* in descending createdAt order.
C6_BoostedFirst ==
    ListingCurrent =>
       \A p \in DOMAIN listing.pages :
          LET page == listing.pages[p].issues IN
          /\ \A k \in DOMAIN page :
                (issues[page[k]].priority = "high")
                   <=> ((p - 1) * listing.limit + k <= Cardinality(HighMatching))
          /\ \A q \in DOMAIN listing.pages :
                \A k \in DOMAIN page, m \in DOMAIN listing.pages[q].issues :
                   LET x == page[k]
                       y == listing.pages[q].issues[m]
                   IN  ( /\ ListedBefore(p, k, q, m)
                         /\ issues[x].priority = issues[y].priority )
                          => issues[x].createdAt >= issues[y].createdAt

Min(a, b) == IF a < b THEN a ELSE b

\* C7: for a fixed set of issues, a filter and a limit L, every answer
\* reports totalIssues = the number of matching issues and totalPages =
\* ceil(totalIssues / L); page p <= totalPages holds min(L, totalIssues -
\* (p-1)*L) issues, a later page none; and pages 1..totalPages together hold
\* every matching issue exactly once.
C7_PagesConsistent ==
    ListingCurrent =>
       LET L == listing.limit
           total == Cardinality(Matching(listing.query))
           totalPages == IF total % L = 0 THEN total \div L ELSE total \div L + 1
           pages == listing.pages
       IN  /\ \A p \in DOMAIN pages :
                /\ pages[p].totalIssues = total
                /\ pages[p].totalPages = totalPages
                /\ Len(pages[p].issues) =
                      IF p <= totalPages THEN Min(L, total - (p - 1) * L) ELSE 0
           /\ (\A p \in 1 .. totalPages : p \in DOMAIN pages) =>
                 \A id \in Matching(listing.query) :
                    Cardinality({pk \in (1 .. totalPages) \X (1 .. L) :
                                   /\ pk[2] \in DOMAIN pages[pk[1]].issues
                                   /\ pages[pk[1]].issues[pk[2]] = id}) = 1

Last(seq) == seq[Len(seq)]

\* a "boosted" timeline entry was appended to issue id by this step
BoostedBy(id, payer) ==
    /\ id \in DOMAIN issues /\ id \in DOMAIN issues'
    /\ Len(issues'[id].timeline) = Len(issues[id].timeline) + 1
    /\ Last(issues'[id].timeline).status = "boosted"
    /\ Last(issues'[id].timeline).updatedBy = payer

\* C11: on both payment paths (POST /payments, POST /payments/verify-payment)
\* an issue gets priority high and a "boosted" timeline entry only from a
\* payer whose email is the issue's userEmail; a boost of another user's
\* issue is answered 403, with no payment recorded and no issue changed.
C11_BoostOwnIssueOnly ==
    [][/\ \A id \in 1 .. MaxPayIssues, payer \in Payers :
             BoostedBy(id, payer) => issues[id].userEmail = payer
       /\ \A caller \in Payers, id \in DOMAIN issues :
             ( /\ issues[id].userEmail # caller
               /\ caller \in DOMAIN users
               /\ RecordPayment(caller, "boost", id, MaxVerified) )
                => resp'.code = 403 /\ UNCHANGED db
       /\ \A caller \in Payers, sessionId \in DOMAIN sessions :
             ( /\ sessions[sessionId].metadata.type = "boost"
               /\ sessions[sessionId].payment_status = "paid"
               /\ ~ExistingPayment(sessionId)
               /\ sessions[sessionId].metadata.issueId \in DOMAIN issues
               /\ issues[sessions[sessionId].metadata.issueId].userEmail # caller
               /\ VerifyPayment(caller, sessionId, MaxVerified) )
                => resp'.code = 403 /\ UNCHANGED db
      ]_vars

\* C13: verify-payment changes the database (a payment record, isPremium, a
\* boost) only for a session that belongs to the caller and is paid; no
\* sessionId is answered 400, another user's session 403, an unpaid session
\* of the caller 400, each with users, issues and payments unchanged.
C13_VerifyChecks ==
    [][resp'.op = "verify" =>
       \A caller \in Payers, sessionId \in 0 .. MaxSessions :
          VerifyPayment(caller, sessionId, MaxVerified) =>
             /\ sessionId = 0 => resp'.code = 400 /\ UNCHANGED db
             /\ sessionId \in DOMAIN sessions =>
                  LET session == sessions[sessionId]
                      mine == \/ session.customer_email = caller
                              \/ session.metadata.userEmail = caller
                  IN  /\ ~mine => resp'.code = 403 /\ UNCHANGED db
                      /\ (mine /\ session.payment_status # "paid")
                            => resp'.code = 400 /\ UNCHANGED db
                      /\ (mine /\ session.payment_status = "paid"
                             /\ ~ExistingPayment(sessionId))
                            => /\ resp'.code = 200
                               /\ Len(payments') = Len(payments) + 1
                               /\ Last(payments').transactionId = sessionId
                               /\ Last(payments').userEmail = caller
             /\ ~(UNCHANGED db) =>
                  /\ sessionId \in DOMAIN sessions
                  /\ sessions[sessionId].payment_status = "paid"
                  /\ \/ sessions[sessionId].customer_email = caller
                     \/ sessions[sessionId].metadata.userEmail = caller
      ]_vars

\* a paid session of alice has been verified and recorded, and the last
\* request was a verify-payment refused for a session of another user
C13_Witness ==
    /\ resp.op = "verify" /\ resp.code = 403
    /\ \E k \in DOMAIN payments :
          /\ payments[k].transactionId \in DOMAIN sessions
          /\ payments[k].userEmail = "alice"
    /\ "alice" \in DOMAIN users /\ users["alice"].isPremium

\* the payments whose transactionId is sessionId
RecordsOf(sessionId) == {k \in DOMAIN payments : payments[k].transactionId = sessionId}

\* C12: whatever the number and the interleaving of verify-payment calls for
\* one paid session, the payments collection holds at most one record whose
\* transactionId is that session's id; and a call that looks the record up
\* once it exists answers "Payment already processed" and changes nothing.
C12_VerifyIdempotent ==
    [][/\ \A sessionId \in DOMAIN sessions : Cardinality(RecordsOf(sessionId)') <= 1
       /\ \A slot \in Slots :
             (VerifyFindPayment(slot) /\ ExistingPayment(inflight[slot].id))
                => resp'.reason = "already" /\ UNCHANGED db
      ]_vars

TokenOps == {"create", "delete", "reject", "payment"}

\* the step is a request to one of the protected routes carrying header
ProtectedRequest(header) ==
    \/ PostIssue(header)
    \/ \E id \in IssueIds : DeleteIssueRoute(header, id)
    \/ \E id \in IssueIds : RejectIssueRoute(header, id)
    \/ \E type \in PaymentTypes, issueId \in 0 .. MaxIssues :
          PostPayment(header, type, issueId)

\* C14: a request to a protected route without a bearer token is answered
\* 401, one whose token fails jwt.verify is answered 403, in both cases by
\* verifyToken itself (no role middleware, no handler answers) and with no
\* state changed; a role middleware or handler answers only a request whose
\* token verifies.
C14_TokenGate ==
    [][resp'.op \in TokenOps =>
       \A header \in Headers :
          ProtectedRequest(header) =>
             /\ Len(header) < 2
                   => resp'.code = 401 /\ resp'.reason = "verifyToken" /\ UNCHANGED db
             /\ ( /\ Len(header) >= 2
                  /\ (header[2].signedWith # "JWT_SECRET" \/ header[2].expired) )
                   => resp'.code = 403 /\ resp'.reason = "verifyToken" /\ UNCHANGED db
             /\ resp'.reason # "verifyToken"
                   => /\ Len(header) >= 2
                      /\ header[2].signedWith = "JWT_SECRET"
                      /\ ~header[2].expired
      ]_vars

\* a request with a token that does not verify has just been refused, after
\* requests with good tokens have created and rejected an issue
C14_Witness ==
    /\ resp.op = "delete" /\ resp.code = 403 /\ resp.reason = "verifyToken"
    /\ \E id \in DOMAIN issues : issues[id].status = "rejected"

ReadOps == {"userIssues", "userPayments", "user", "userStats", "messages", "notifications"}

\* the step is one of the six per-user reads, by caller for :email
PerUserRead(caller, email) ==
    \/ GetUserIssues(caller, email)
    \/ GetUserPayments(caller, email)
    \/ GetUser(caller, email)
    \/ GetUserStats(caller, email)
    \/ GetMessages(caller, email)
    \/ GetNotifications(caller, email)

\* C15: each of the six per-user reads, asked for an :email that is not the
\* email of the caller's token, answers 403 with no record; and no answer
\* ever carries a record whose owner is not the caller.
C15_OwnDataOnly ==
    [][resp'.op \in ReadOps =>
       \A caller \in Payers, email \in Payers :
          PerUserRead(caller, email) =>
             /\ email # caller => resp'.code = 403 /\ resp'.data = {}
             /\ \A record \in resp'.data : record.owner = caller
      ]_vars

\* bob has just been refused alice's issues, and alice owns one
C15_Witness ==
    /\ resp.op = "userIssues" /\ resp.code = 403
    /\ \E id \in DOMAIN issues : issues[id].userEmail = "alice"
    /\ \E id \in DOMAIN issues : issues[id].userEmail = "bob"
    /\ Len(mailbox.messages) > 0 /\ Len(payments) > 0

\* C16: PATCH /issues/:id by someone who is not the owner answers 403, on an
\* issue that is not pending 400, and the issue is unchanged in both cases;
\* whatever the body, an edit leaves the issue's userEmail, status, priority,
\* upvotes, upvotedBy and assignedStaff as they were.
C16_EditFrame ==
    [][resp'.op = "edit" =>
       \A caller \in Upvoters, id \in DOMAIN issues, body \in EditFrameBodies :
          EditIssue(caller, id, body) =>
             /\ issues[id].userEmail # caller
                   => resp'.code = 403 /\ issues'[id] = issues[id]
             /\ (issues[id].userEmail = caller /\ issues[id].status # "pending")
                   => resp'.code = 400 /\ issues'[id] = issues[id]
             /\ issues'[id].userEmail = issues[id].userEmail
             /\ issues'[id].status = issues[id].status
             /\ issues'[id].priority = issues[id].priority
             /\ issues'[id].upvotes = issues[id].upvotes
             /\ issues'[id].upvotedBy = issues[id].upvotedBy
             /\ issues'[id].assignedStaff = issues[id].assignedStaff
      ]_vars

\* no request is between two of its awaits
Quiescent == \A slot \in Slots : inflight[slot] = Idle

\* C17: DELETE /issues/:id by someone who is not the owner answers 403 and
\* changes nothing; whenever no request is in flight every user's issueCount
\* is the number of issues with that userEmail; issueCount is never negative.
C17_IssueCountExact ==
    [][/\ \A slot \in Slots, caller \in Payers, id \in DOMAIN issues :
             (DeleteStart(slot, caller, id) /\ issues[id].userEmail # caller)
                => resp'.code = 403 /\ UNCHANGED <<db, inflight>>
       /\ Quiescent' =>
             \A email \in DOMAIN users' :
                users'[email].issueCount = Cardinality(OwnedBy(email)')
       /\ \A email \in DOMAIN users' : users'[email].issueCount >= 0
      ]_vars

\* how often email occurs in seq
Occurrences(seq, email) == Cardinality({k \in DOMAIN seq : seq[k] = email})

\* C18: under any interleaving of upvote requests upvotedBy holds each email
\* at most once and never the owner's; an upvote by someone already in
\* upvotedBy answers 400 and an upvote of one's own issue 403, both with
\* upvotes and upvotedBy unchanged.
C18_UpvoteOnce ==
    [][/\ \A id \in DOMAIN issues' :
             /\ \A email \in Upvoters : Occurrences(issues'[id].upvotedBy, email) <= 1
             /\ ~Includes(issues'[id].upvotedBy, issues'[id].userEmail)
       /\ \A slot \in Slots, caller \in Upvoters, id \in DOMAIN issues :
             UpvoteStart(slot, caller, id) =>
                /\ Includes(issues[id].upvotedBy, caller)
                      => resp'.code = 400 /\ UNCHANGED <<issues, inflight>>
                /\ ( /\ ~Includes(issues[id].upvotedBy, caller)
                     /\ issues[id].userEmail = caller )
                      => resp'.code = 403 /\ UNCHANGED <<issues, inflight>>
      ]_vars

\* assignedIssuesCount of email, 0 without a user document
AssignedIssuesCountOf(coll, email) ==
    IF email \in DOMAIN coll THEN coll[email].assignedIssuesCount ELSE 0

\* C19: assign sets assignedStaff only when it is null and the target is an
\* existing staff member (400 "already assigned" or 404 otherwise, issue and
\* staff counters unchanged); once assignedStaff is non-null no step, under
\* any interleaving of assign requests, changes it to another staff member,
\* and no step increments a staff member's assignedIssuesCount for an issue
\* that is assigned to someone else.
C19_AssignedOnce ==
    [][/\ \A id \in DOMAIN issues :
             (issues[id].assignedStaff # Null /\ id \in DOMAIN issues')
                => issues'[id].assignedStaff = issues[id].assignedStaff
       /\ \A slot \in Slots, id \in DOMAIN issues, staffEmail \in Staffers :
             (AssignStart(slot, "root", id, staffEmail) /\ issues[id].assignedStaff # Null)
                => resp'.code = 400 /\ UNCHANGED <<db, inflight>>
       /\ \A slot \in Slots :
             ( /\ AssignFindStaff(slot)
               /\ \/ inflight[slot].target \notin DOMAIN users
                  \/ users[inflight[slot].target].role # "staff" )
                => resp'.code = 404 /\ UNCHANGED db
       /\ \A slot \in Slots, staffEmail \in Staffers :
             ( /\ AssignInc(slot)
               /\ AssignedIssuesCountOf(users', staffEmail)
                     > AssignedIssuesCountOf(users, staffEmail) )
                => /\ inflight[slot].id \in DOMAIN issues
                   /\ issues[inflight[slot].id].assignedStaff = staffEmail
      ]_vars

\* C20: DELETE /staff/:email answers 400 and deletes nothing while an issue
\* is assigned to that email; in every reachable state the assignedStaff
\* email of every assigned issue is the email of an existing user with role
\* staff.
C20_AssignedStaffExists ==
    [][/\ \A slot \in Slots, email \in Staffers :
             (DeleteStaffStart(slot, "root", email) /\ AssignedCount(email) > 0)
                => resp'.code = 400 /\ UNCHANGED <<db, inflight>>
       /\ \A id \in DOMAIN issues' :
             issues'[id].assignedStaff # Null
                => /\ issues'[id].assignedStaff \in DOMAIN users'
                   /\ users'[issues'[id].assignedStaff].role = "staff"
      ]_vars

\* C21: while a user's isBlocked is true every create-issue request by that
\* user answers 403, inserts no issue and leaves issueCount unchanged; an
\* admin's unblock sets isBlocked to false, and the next create-issue request
\* of the user is refused only by the quota, otherwise it inserts the issue
\* and answers 201.
C21_BlockedCannotCreate ==
    [][/\ \A caller \in Reporters :
             ( /\ CreateIssue(caller, MaxQuotaIssues)
               /\ caller \in DOMAIN users
               /\ users[caller].isBlocked )
                => resp'.code = 403 /\ UNCHANGED db
       /\ \A caller \in Emails, email \in Accounts :
             ( /\ BlockUser(caller, email, FALSE)
               /\ resp'.code = 200 )
                => ~users'[email].isBlocked
       /\ \A caller \in Reporters :
             ( /\ CreateIssue(caller, MaxQuotaIssues)
               /\ caller \in DOMAIN users
               /\ ~users[caller].isBlocked
               /\ ~QuotaExceeded(users[caller]) )
                => /\ resp'.code = 201
                   /\ nextId \in DOMAIN issues' /\ issues'[nextId].userEmail = caller
                   /\ users'[caller].issueCount = users[caller].issueCount + 1
      ]_vars

\* a blocked user asked to create an issue and was answered 403
C21_Witness ==
    /\ resp.op = "create" /\ resp.code = 403 /\ resp.reason = "verifyCitizen"
    /\ \E caller \in Reporters :
          caller \in DOMAIN users /\ users[caller].isBlocked /\ ~QuotaExceeded(users[caller])

\* a database operation of the request in slot rejects in this step
Rejects(slot) ==
    \/ TryVerifyCitizen(slot, FALSE)
    \/ TryFindUser(slot, FALSE)
    \/ TryInsert(slot, FALSE)
    \/ TryInc(slot, FALSE)
    \/ TryVerifyAdmin(slot, FALSE)
    \/ TryBlock(slot, FALSE)

\* C22: when a database operation inside a handler or role middleware fails
\* the request is answered with status 500 and success false and the
\* failing step writes nothing; no request is ever answered twice and an
\* answered request has exactly one answer; a request that failed takes no
\* further step (no retry); a request received after a failure is served as
\* usual when its own operations succeed.
C22_ErrorPaths ==
    [][\A slot \in Slots :
          /\ Rejects(slot)
                => /\ resp' = ErrorResponse(inflight[slot].op)
                   /\ resp'.code = 500 /\ ~resp'.success
                   /\ inflight'[slot].pc = "done" /\ inflight'[slot].answers = 1
                   /\ UNCHANGED db
          /\ inflight'[slot] # Idle
                => inflight'[slot].answers = (IF inflight'[slot].pc = "done" THEN 1 ELSE 0)
          /\ (inflight[slot] # Idle /\ inflight[slot].failed /\ inflight'[slot] # inflight[slot])
                => inflight'[slot] = Idle /\ UNCHANGED <<db, resp>>
          /\ (inflight[slot] # Idle /\ inflight[slot].after /\ TryInc(slot, TRUE))
                => /\ resp'.code = 201
                   /\ inflight[slot].id \in DOMAIN issues
                   /\ users' = IncIssueCount(users, inflight[slot].caller, 1)
          /\ ( /\ inflight[slot] # Idle /\ inflight[slot].after /\ TryBlock(slot, TRUE)
               /\ inflight[slot].target \in DOMAIN users )
                => /\ resp'.code = 200
                   /\ users'[inflight[slot].target].isBlocked = inflight[slot].arg
      ]_vars

\* one request was answered 500 after a rejected operation, and a request
\* received after that failure has been answered 201 or 200
C22_Witness ==
    \E failing \in Slots, later \in Slots :
       /\ failing # later
       /\ inflight[failing] # Idle /\ inflight[later] # Idle
       /\ inflight[failing].failed /\ inflight[failing].answers = 1
       /\ inflight[later].after /\ ~inflight[later].failed
       /\ inflight[later].pc = "done" /\ inflight[later].answers = 1
       /\ resp.code \in {200, 201}

====
